---- MODULE Spec2Model ----
(***************************************************************************)
(* Model of codec-compare's metric catalog (createMetrics,                 *)
(* enableDefaultMetrics, selectPlotMetrics), ratio statistics (getRatio,   *)
(* computeStats), the BatchSelection FILTER_CHANGED listener and the       *)
(* MatchesUi panel.                                                        *)
(*                                                                         *)
(* Indices keep the source's 0-based values; a TLA+ sequence s holds the   *)
(* element of index i at s[i + 1].                                         *)
(***************************************************************************)
EXTENDS Integers, Sequences, FiniteSets, TLC

VARIABLES
    lastOp,        \* name of the operation applied last ("init" before any)
    ratioArgs,     \* getRatio: the arguments <<a, b>>
    ratioResult,   \* getRatio: the returned number
    batches,       \* Batch[]: the loaded batches, batches[i + 1].index = i
    metrics,       \* FieldMetric[]: records [fieldIndices, enabled]
    plot,          \* selectPlotMetrics' result <<x, y>>
    leftBatch,     \* computeStats: the left Batch
    rightBatch,    \* computeStats: the right Batch
    dataPoints,    \* computeStats: Match[], records [leftIndex, rightIndex]
    stats,         \* computeStats: the returned FieldMetricStats[]
    batchSelections,   \* State.batchSelections: BatchSelection[]
    eventBatchIndex,   \* detail.batchIndex of the event delivered last
    observed,      \* what the FILTERED_DATA_CHANGED listeners were handed
                   \* during the last FILTER_CHANGED
    referenceBatchSelectionIndex,  \* State.referenceBatchSelectionIndex
    batchSelection,    \* MatchesUi.batchSelection: its position in
                       \* State.batchSelections, -1 for undefined
    display,       \* MatchesUi's display: "none" or "block"
    updateRequested,   \* MatchesUi: requestUpdate() called, render pending
    rendered,      \* MatchesUi: what render() returned last
    dispatched     \* MatchesUi: the event its buttons dispatched last

ratioVars == <<ratioArgs, ratioResult>>
catalogVars == <<batches, metrics, plot>>
statsVars == <<leftBatch, rightBatch, dataPoints, stats>>
filterVars == <<batchSelections, eventBatchIndex, observed>>
uiVars ==
    <<referenceBatchSelectionIndex, batchSelection, display, updateRequested,
      rendered, dispatched>>
vars == <<lastOp, ratioVars, catalogVars, statsVars, filterVars, uiVars>>

\* What the operations of one part of the program leave alone.
notRatio == <<catalogVars, statsVars, filterVars, uiVars>>
notCatalog == <<ratioVars, statsVars, filterVars, uiVars>>
notStats == <<ratioVars, catalogVars, filterVars, uiVars>>
notFilter == <<ratioVars, catalogVars, statsVars, uiVars>>
notUi ==
    <<ratioVars, catalogVars, statsVars, batchSelections, observed,
      referenceBatchSelectionIndex>>

------------------------------------------------------------------------------
(* Bounds. *)

\* getRatio is applied to the integers -MaxOperand .. MaxOperand.
MaxOperand == 5
\* createMetrics is applied to at most MaxBatches batches that have at most
\* MaxTotalFields fields altogether.
MaxBatches == 2
MaxTotalFields == 5
\* selectPlotMetrics is applied to at most MaxPlotMetrics metrics.
MaxPlotMetrics == 3
\* computeStats is applied to at most MaxMatches matches and MaxStatMetrics
\* metrics of two batches of MaxValue + 1 rows.
MaxMatches == 2
MaxStatMetrics == 2
MaxValue == 2
\* The range filters take their ends in 1 .. MaxRange.
MaxRange == 3
\* MatchesUi is given at most MaxSelections batch selections.
MaxSelections == 3

------------------------------------------------------------------------------
(* JavaScript numbers.  A number is the record [n, d, r] that stands for   *)
(* the real (n / d) ^ (1 / r): d > 0 and gcd(n, d) = 1 for a finite value, *)
(* [1, 0, 1] is +Infinity and [0, 0, 1] is NaN.  r > 1 only for the n-th   *)
(* roots a geometric mean produces.                                        *)

Abs(x) == IF x < 0 THEN -x ELSE x

RECURSIVE Gcd(_, _)
Gcd(x, y) == IF y = 0 THEN x ELSE Gcd(y, x % y)

Num(n, d) == [n |-> n, d |-> d, r |-> 1]
Whole(v) == Num(v, 1)
Infinity == Num(1, 0)
NaN == Num(0, 0)
One == Whole(1)
Zero == Whole(0)

\* The JavaScript quotient a / b of two integers, b # 0.
Quot(a, b) ==
    LET g == Gcd(Abs(a), Abs(b))
        s == IF b < 0 THEN -1 ELSE 1
    IN  Num((s * a) \div g, Abs(b) \div g)

\* x < y for two numbers with r = 1, neither NaN.
Lt(x, y) == x.n * y.d < y.n * x.d
Leq(x, y) == x = y \/ Lt(x, y)

\* Math.min and Math.max on two such numbers.
MathMin(x, y) == IF Lt(y, x) THEN y ELSE x
MathMax(x, y) == IF Lt(x, y) THEN y ELSE x

------------------------------------------------------------------------------
(* metric.ts: getRatio *)

getRatioNoZeroCase(a, b) == IF b = 0 THEN Infinity ELSE Quot(a, b)

getRatio(a, b) == IF b = 0 THEN (IF a = 0 THEN One ELSE Infinity) ELSE Quot(a, b)

Operands == (0 - MaxOperand) .. MaxOperand

IdleRatio == ratioArgs = <<0, 0>> /\ ratioResult = NaN
IdleCatalog == batches = <<>> /\ metrics = <<>> /\ plot = <<-1, -1>>
IdleFilter == batchSelections = <<>> /\ eventBatchIndex = -1 /\ observed = <<>>
EmptyHtml == [reference |-> -1, batch |-> -1]
NoEvent == [type |-> "none", batchIndex |-> -1]
IdleUi ==
    /\ referenceBatchSelectionIndex = 0
    /\ batchSelection = -1
    /\ display = "none"
    /\ updateRequested = FALSE
    /\ rendered = EmptyHtml
    /\ dispatched = NoEvent
IdleStats ==
    /\ leftBatch = [index |-> 0, fields |-> <<>>, rows |-> <<>>]
    /\ rightBatch = [index |-> 0, fields |-> <<>>, rows |-> <<>>]
    /\ dataPoints = <<>>
    /\ stats = <<>>

InitRatio ==
    /\ lastOp = "init"
    /\ IdleCatalog
    /\ IdleStats
    /\ IdleFilter
    /\ IdleUi
    /\ ratioArgs \in Operands \X Operands
    /\ ratioResult = NaN

CallGetRatio ==
    /\ lastOp = "init"
    /\ lastOp' = "getRatio"
    /\ ratioResult' = getRatio(ratioArgs[1], ratioArgs[2])
    /\ UNCHANGED <<ratioArgs, notRatio>>

NextRatio == CallGetRatio

SpecRatio == InitRatio /\ [][NextRatio]_vars

\* C5: getRatio(a, b) is total: 1 for a = b = 0, +Infinity for b = 0 and
\* a # 0, and otherwise the quotient q with q * b = a; getRatio(0,0) = 1,
\* getRatio(5,0) = +Infinity, getRatio(0,5) = 0, getRatio(4,2) = 2.
GetRatioTotal ==
    lastOp = "getRatio" =>
        LET a == ratioArgs[1]
            b == ratioArgs[2]
            q == ratioResult
        IN  /\ q.r = 1
            /\ q # NaN
            /\ (a = 0 /\ b = 0) => (q.n = 1 /\ q.d = 1)
            /\ (a # 0 /\ b = 0) => (q.n = 1 /\ q.d = 0)
            /\ b # 0 => (q.d > 0 /\ q.n * b = a * q.d /\ Gcd(Abs(q.n), q.d) = 1)
            /\ ratioArgs = <<0, 0>> => q = Whole(1)
            /\ ratioArgs = <<5, 0>> => q = Infinity
            /\ ratioArgs = <<0, 5>> => q = Whole(0)
            /\ ratioArgs = <<4, 2>> => q = Whole(2)

GetRatioTotalWitness ==
    lastOp = "getRatio" /\ ratioArgs = <<0, 0>> /\ ratioResult = One

------------------------------------------------------------------------------
(* entry.ts: Field, Batch, areFieldsComparable *)

\* The FieldId values metric.ts names, and OTHER for any other FieldId.
ExcludedIds == {"WIDTH", "HEIGHT", "EFFORT", "QUALITY"}

Field(id, isNumber) == [id |-> id, isNumber |-> isNumber]
Batch(index, fields, rows) == [index |-> index, fields |-> fields, rows |-> rows]

areFieldsComparable(a, b) == a.id = b.id /\ a.isNumber = b.isNumber

\* Array.prototype.findIndex / find, given the callback's result for every
\* element: the 0-based index of the first element that passes, -1 when none
\* does.
findIndex(passes) ==
    LET hits == {i \in 1 .. Len(passes) : passes[i]}
    IN  IF hits = {} THEN -1
        ELSE (CHOOSE i \in hits : \A j \in hits : i <= j) - 1

\* s[1] + ... + s[k]
RECURSIVE SumUpTo(_, _)
SumUpTo(s, k) == IF k = 0 THEN 0 ELSE s[k] + SumUpTo(s, k - 1)

SeqsUpTo(S, n) == UNION {[1 .. k -> S] : k \in 0 .. n}

------------------------------------------------------------------------------
(* metric.ts: FieldMetric, createMetrics, enableDefaultMetrics *)

FieldMetric(fieldIndices) == [fieldIndices |-> fieldIndices, enabled |-> FALSE]

\* Lines 53-65: the indices pushed for batches 1, 2, ... until one batch has
\* no comparable field (break).
RECURSIVE otherFieldIndices(_, _, _)
otherFieldIndices(bs, field, i) ==
    IF i >= Len(bs) THEN <<>>
    ELSE LET otherFieldIndex ==
                 findIndex([j \in 1 .. Len(bs[i + 1].fields) |->
                               areFieldsComparable(field, bs[i + 1].fields[j])])
         IN  IF otherFieldIndex = -1 THEN <<>>
             ELSE <<otherFieldIndex>> \o otherFieldIndices(bs, field, i + 1)

\* Lines 52, 64: field.isNumber && otherField.isNumber for every index pushed.
isNumberOf(bs, field, fieldIndices) ==
    /\ field.isNumber
    /\ \A i \in 2 .. Len(fieldIndices) :
           bs[i].fields[fieldIndices[i] + 1].isNumber

\* Lines 49-51, 53-65: for every field of batches[0], in order, its own index
\* followed by the indices found in the other batches.
candidateFieldIndices(bs) ==
    [k \in 1 .. Len(bs[1].fields) |->
        <<k - 1>> \o otherFieldIndices(bs, bs[1].fields[k], 1)]

\* createMetrics without the check of line 68.
createMetricsPartial(bs) ==
    IF Len(bs) = 0 THEN <<>>
    ELSE LET Keep(fieldIndices) ==
                 LET field == bs[1].fields[fieldIndices[1] + 1]
                 IN  /\ isNumberOf(bs, field, fieldIndices)
                     /\ ~(field.id = "WIDTH" \/ field.id = "HEIGHT")
                     /\ ~(field.id = "EFFORT" \/ field.id = "QUALITY")
             kept == SelectSeq(candidateFieldIndices(bs), Keep)
         IN  [m \in 1 .. Len(kept) |-> FieldMetric(kept[m])]

createMetrics(bs) ==
    IF Len(bs) = 0 THEN <<>>
    ELSE LET Keep(fieldIndices) ==
                 LET field == bs[1].fields[fieldIndices[1] + 1]
                 IN  /\ Len(fieldIndices) = Len(bs)
                     /\ isNumberOf(bs, field, fieldIndices)
                     /\ ~(field.id = "WIDTH" \/ field.id = "HEIGHT")
                     /\ ~(field.id = "EFFORT" \/ field.id = "QUALITY")
             kept == SelectSeq(candidateFieldIndices(bs), Keep)
         IN  [m \in 1 .. Len(kept) |-> FieldMetric(kept[m])]

enableDefaultMetrics(firstBatch, ms) ==
    [k \in 1 .. Len(ms) |->
        LET field == firstBatch.fields[ms[k].fieldIndices[1] + 1]
        IN  IF \/ field.id = "ENCODED_SIZE"
               \/ field.id = "ENCODING_DURATION"
               \/ field.id = "DECODING_DURATION"
            THEN [ms[k] EXCEPT !.enabled = TRUE]
            ELSE ms[k]]

\* The fields createMetrics is applied to.
CatalogFields ==
    {Field(id, TRUE) : id \in ExcludedIds \cup {"ENCODED_SIZE"}}
        \cup {Field("ENCODED_SIZE", FALSE)}

InitCatalog ==
    /\ lastOp = "init"
    /\ IdleRatio
    /\ IdleStats
    /\ IdleFilter
    /\ IdleUi
    /\ \E lens \in SeqsUpTo(0 .. MaxTotalFields, MaxBatches) :
           /\ SumUpTo(lens, Len(lens)) <= MaxTotalFields
           /\ \E flat \in [1 .. SumUpTo(lens, Len(lens)) -> CatalogFields] :
                  batches = [i \in 1 .. Len(lens) |->
                      Batch(i - 1,
                            [j \in 1 .. lens[i] |-> flat[SumUpTo(lens, i - 1) + j]],
                            <<>>)]
    /\ metrics = <<>>
    /\ plot = <<-1, -1>>

CreateMetrics ==
    /\ lastOp = "init"
    /\ lastOp' = "createMetrics"
    /\ metrics' = createMetrics(batches)
    /\ UNCHANGED <<batches, plot, notCatalog>>

EnableDefaultMetrics ==
    /\ lastOp = "createMetrics"
    /\ Len(batches) > 0
    /\ lastOp' = "enableDefaultMetrics"
    /\ metrics' = enableDefaultMetrics(batches[1], metrics)
    /\ UNCHANGED <<batches, plot, notCatalog>>

NextCatalog == CreateMetrics \/ EnableDefaultMetrics

SpecCatalog == InitCatalog /\ [][NextCatalog]_vars

\* The index of the first field of batch i (0-based) comparable to f, -1 if none.
FirstComparable(i, f) ==
    LET fs == batches[i + 1].fields
    IN  IF \E j \in 1 .. Len(fs) : fs[j].id = f.id /\ fs[j].isNumber = f.isNumber
        THEN (CHOOSE j \in 1 .. Len(fs) :
                 /\ fs[j].id = f.id /\ fs[j].isNumber = f.isNumber
                 /\ \A k \in 1 .. j - 1 :
                        ~(fs[k].id = f.id /\ fs[k].isNumber = f.isNumber)) - 1
        ELSE -1

\* The 0-based indices of the fields of batches[0] that satisfy (1), (2), (3).
EligibleFields ==
    IF batches = <<>> THEN {}
    ELSE {k \in 0 .. Len(batches[1].fields) - 1 :
            LET f == batches[1].fields[k + 1]
            IN  /\ \A i \in 1 .. Len(batches) - 1 : FirstComparable(i, f) # -1
                /\ f.isNumber
                /\ f.id \notin {"WIDTH", "HEIGHT", "EFFORT", "QUALITY"}}

ExampleB1 == <<Field("WIDTH", TRUE), Field("ENCODED_SIZE", TRUE)>>
ExampleB2 ==
    <<Field("ENCODED_SIZE", TRUE), Field("WIDTH", TRUE), Field("QUALITY", TRUE)>>
ExampleBatches == <<Batch(0, ExampleB1, <<>>), Batch(1, ExampleB2, <<>>)>>

\* C1: createMetrics returns, in the order of the first batch's fields, one
\* metric for exactly the eligible fields of batches[0]; each metric has one
\* index per batch, entry 0 the field's own index and entry i the index of
\* the first comparable field of batches[i]; no metric for no batch; the
\* example gives exactly one metric with fieldIndices [1, 0].
CreateMetricsExact ==
    lastOp = "createMetrics" =>
        /\ Len(metrics) = Cardinality(EligibleFields)
        /\ \A m \in 1 .. Len(metrics) :
               LET fi == metrics[m].fieldIndices
               IN  /\ Len(fi) = Len(batches)
                   /\ fi[1] \in EligibleFields
                   /\ \A i \in 1 .. Len(batches) - 1 :
                          fi[i + 1] = FirstComparable(i, batches[1].fields[fi[1] + 1])
        /\ \A m, n \in 1 .. Len(metrics) :
               m < n => metrics[m].fieldIndices[1] < metrics[n].fieldIndices[1]
        /\ batches = <<>> => metrics = <<>>
        /\ batches = ExampleBatches =>
               (Len(metrics) = 1 /\ metrics[1].fieldIndices = <<1, 0>>)

CreateMetricsExactWitness ==
    /\ lastOp = "createMetrics"
    /\ batches = ExampleBatches
    /\ Len(metrics) = 1
    /\ metrics[1].fieldIndices = <<1, 0>>

------------------------------------------------------------------------------
(* metric.ts: selectPlotMetrics *)

\* A returned FieldMetric is named by its 0-based position in the metrics
\* array (the identity of the object), undefined by -1.
withPosition(ms) == [k \in 1 .. Len(ms) |-> [pos |-> k - 1, metric |-> ms[k]]]

\* selectPlotMetrics whose second metric need not differ from the first.
selectPlotMetricsSame(firstBatch, ms) ==
    LET metricToFieldId(m) == firstBatch.fields[m.metric.fieldIndices[1] + 1].id
        objs == withPosition(ms)
        find(Test(_)) == findIndex([k \in 1 .. Len(objs) |-> Test(objs[k])])
        xSize == find(LAMBDA m : m.metric.enabled /\ metricToFieldId(m) = "ENCODED_SIZE")
        yEnc == find(LAMBDA m : m.metric.enabled /\ metricToFieldId(m) = "ENCODING_DURATION")
        yDec == find(LAMBDA m : m.metric.enabled /\ metricToFieldId(m) = "DECODING_DURATION")
        yDuration == IF yEnc = -1 THEN yDec ELSE yEnc
        xFirst == find(LAMBDA m : m.metric.enabled)
    IN  IF xSize # -1 /\ yDuration # -1 THEN <<xSize, yDuration>>
        ELSE IF xFirst # -1 THEN <<xFirst, xFirst>>
        ELSE IF Len(ms) > 0 THEN <<0, 0>>
        ELSE <<-1, -1>>

selectPlotMetrics(firstBatch, ms) ==
    LET metricToFieldId(m) == firstBatch.fields[m.metric.fieldIndices[1] + 1].id
        objs == withPosition(ms)
        find(Test(_)) == findIndex([k \in 1 .. Len(objs) |-> Test(objs[k])])
        xSize == find(LAMBDA m : m.metric.enabled /\ metricToFieldId(m) = "ENCODED_SIZE")
        yEnc == find(LAMBDA m : m.metric.enabled /\ metricToFieldId(m) = "ENCODING_DURATION")
        yDec == find(LAMBDA m : m.metric.enabled /\ metricToFieldId(m) = "DECODING_DURATION")
        yDuration == IF yEnc = -1 THEN yDec ELSE yEnc
        xFirst == find(LAMBDA m : m.metric.enabled)
        ySecond == find(LAMBDA m : m.metric.enabled /\ m.pos # xFirst)
    IN  IF xSize # -1 /\ yDuration # -1 THEN <<xSize, yDuration>>
        ELSE IF xFirst # -1
             THEN <<xFirst, IF ySecond = -1 THEN xFirst ELSE ySecond>>
        ELSE IF Len(ms) > 0 THEN <<0, 0>>
        ELSE <<-1, -1>>

\* The first batch selectPlotMetrics is applied to.
PlotFields ==
    <<Field("DECODING_DURATION", TRUE), Field("OTHER", TRUE),
      Field("ENCODED_SIZE", TRUE), Field("ENCODING_DURATION", TRUE)>>

InitPlot ==
    /\ lastOp = "init"
    /\ IdleRatio
    /\ IdleStats
    /\ IdleFilter
    /\ IdleUi
    /\ batches = <<Batch(0, PlotFields, <<>>)>>
    /\ metrics \in SeqsUpTo(
           {[fieldIndices |-> <<i>>, enabled |-> e] :
                i \in 0 .. Len(PlotFields) - 1, e \in BOOLEAN},
           MaxPlotMetrics)
    /\ plot = <<-1, -1>>

\* The user toggles one metric.
ToggleEnabled ==
    /\ \E k \in 1 .. Len(metrics) :
           metrics' = [metrics EXCEPT ![k].enabled = ~metrics[k].enabled]
    /\ lastOp' = "toggleEnabled"
    /\ UNCHANGED <<batches, plot, notCatalog>>

SelectPlotMetrics ==
    /\ lastOp' = "selectPlotMetrics"
    /\ plot' = selectPlotMetrics(batches[1], metrics)
    /\ UNCHANGED <<batches, metrics, notCatalog>>

NextPlot == ToggleEnabled \/ SelectPlotMetrics

SpecPlot == InitPlot /\ [][NextPlot]_vars

MetricId(k) == batches[1].fields[metrics[k + 1].fieldIndices[1] + 1].id
Enabled == {k \in 0 .. Len(metrics) - 1 : metrics[k + 1].enabled}
EnabledWithId(id) == {k \in Enabled : MetricId(k) = id}
Least(S) == CHOOSE k \in S : \A j \in S : k <= j

\* C2: selectPlotMetrics follows the precedence (1) enabled ENCODED_SIZE with
\* enabled ENCODING_DURATION, else with enabled DECODING_DURATION; (2) the
\* first enabled metric and the first other enabled metric, or the same one
\* twice; (3) metrics[0] twice; (4) undefined twice.
SelectPlotPrecedence ==
    lastOp = "selectPlotMetrics" =>
        LET size == EnabledWithId("ENCODED_SIZE")
            enc == EnabledWithId("ENCODING_DURATION")
            dec == EnabledWithId("DECODING_DURATION")
        IN  IF size # {} /\ enc # {} THEN plot = <<Least(size), Least(enc)>>
            ELSE IF size # {} /\ dec # {} THEN plot = <<Least(size), Least(dec)>>
            ELSE IF Cardinality(Enabled) > 1
                 THEN plot = <<Least(Enabled), Least(Enabled \ {Least(Enabled)})>>
            ELSE IF Cardinality(Enabled) = 1
                 THEN plot = <<Least(Enabled), Least(Enabled)>>
            ELSE IF Len(metrics) > 0 THEN plot = <<0, 0>>
            ELSE plot = <<-1, -1>>

\* Two enabled metrics, neither pair of case (1): x and y differ.
SelectPlotPrecedenceWitness ==
    /\ lastOp = "selectPlotMetrics"
    /\ Cardinality(Enabled) = 2
    /\ EnabledWithId("ENCODED_SIZE") = {}
    /\ plot[1] = Least(Enabled)
    /\ plot[2] # plot[1]

------------------------------------------------------------------------------
(* geometric_mean.ts: GeometricMean, a running sum of logarithms.  The sum *)
(* is "fin" (the logarithm of the positive rational prod), "ninf", "pinf"  *)
(* or "nan", as IEEE 754 addition of Math.log's results gives.             *)

RECURSIVE Pow(_, _)
Pow(x, e) == IF e = 0 THEN 1 ELSE x * Pow(x, e - 1)

\* The least p >= from with p^e >= x.
RECURSIVE RootCeil(_, _, _)
RootCeil(x, e, from) ==
    IF e = 1 THEN x
    ELSE IF Pow(from, e) >= x THEN from
    ELSE RootCeil(x, e, from + 1)

IsPower(x, e) == Pow(RootCeil(x, e, 0), e) = x

\* (n / d) ^ (1 / k) for n, d > 0, in lowest terms of the root's degree.
Root(n, d, k) ==
    LET Divides(f) == k % f = 0 /\ IsPower(n, f) /\ IsPower(d, f)
        e == CHOOSE c \in 1 .. k : Divides(c) /\ \A f \in c + 1 .. k : ~Divides(f)
    IN  [n |-> RootCeil(n, e, 0), d |-> RootCeil(d, e, 0), r |-> k \div e]

GeometricMean == [kind |-> "fin", prod |-> One, numValues |-> 0]

\* Math.log(value): its kind, and exp of it when finite.
LogKind(value) ==
    IF value = NaN \/ value.n < 0 THEN "nan"
    ELSE IF value = Infinity THEN "pinf"
    ELSE IF value.n = 0 THEN "ninf"
    ELSE "fin"

GeometricMeanAdd(g, value) ==
    LET k == LogKind(value)
        kind == IF g.kind = "nan" \/ k = "nan" THEN "nan"
                ELSE IF g.kind = "fin" THEN k
                ELSE IF k = "fin" \/ k = g.kind THEN g.kind
                ELSE "nan"
    IN  [kind |-> kind,
         prod |-> IF kind = "fin"
                      THEN Quot(g.prod.n * value.n, g.prod.d * value.d)
                      ELSE One,
         numValues |-> g.numValues + 1]

GeometricMeanGet(g) ==
    IF g.numValues = 0 THEN One
    ELSE IF g.kind = "nan" THEN NaN
    ELSE IF g.kind = "pinf" THEN Infinity
    ELSE IF g.kind = "ninf" THEN Zero
    ELSE Root(g.prod.n, g.prod.d, g.numValues)

------------------------------------------------------------------------------
(* metric.ts: FieldMetricStats, computeStats *)

FieldMetricStatsZero ==
    [geometricMean |-> Zero, minRatio |-> Zero, maxRatio |-> Zero,
     arithmeticMean |-> Zero]

FieldMetricStats ==
    [geometricMean |-> One, minRatio |-> One, maxRatio |-> One,
     arithmeticMean |-> One]

\* Lines 147-151: the locals of one metric's loop.
statsStart ==
    [fieldStats |-> FieldMetricStats, numDataPoints |-> 0,
     geometricMean |-> GeometricMean, leftSum |-> 0, rightSum |-> 0]

\* statsStep whose minimum and maximum start from the default 1.
statsStepNoSeed(acc, leftValue, rightValue) ==
    LET ratio == getRatio(leftValue, rightValue)
    IN  [fieldStats |->
             [acc.fieldStats EXCEPT
                 !.minRatio = MathMin(acc.fieldStats.minRatio, ratio),
                 !.maxRatio = MathMax(acc.fieldStats.maxRatio, ratio)],
         numDataPoints |-> acc.numDataPoints + 1,
         geometricMean |-> GeometricMeanAdd(acc.geometricMean, ratio),
         leftSum |-> acc.leftSum + leftValue,
         rightSum |-> acc.rightSum + rightValue]

\* statsStep that leaves a ratio of 0 out of the geometric mean.
statsStepSkipZero(acc, leftValue, rightValue) ==
    LET ratio == getRatio(leftValue, rightValue)
    IN  [fieldStats |->
             [acc.fieldStats EXCEPT
                 !.minRatio = IF acc.numDataPoints = 0 THEN ratio
                              ELSE MathMin(acc.fieldStats.minRatio, ratio),
                 !.maxRatio = IF acc.numDataPoints = 0 THEN ratio
                              ELSE MathMax(acc.fieldStats.maxRatio, ratio)],
         numDataPoints |-> acc.numDataPoints + 1,
         geometricMean |-> IF ratio = Zero THEN acc.geometricMean
                           ELSE GeometricMeanAdd(acc.geometricMean, ratio),
         leftSum |-> acc.leftSum + leftValue,
         rightSum |-> acc.rightSum + rightValue]

\* Lines 157-172: one data point.
statsStep(acc, leftValue, rightValue) ==
    LET ratio == getRatio(leftValue, rightValue)
    IN  [fieldStats |->
             [acc.fieldStats EXCEPT
                 !.minRatio = IF acc.numDataPoints = 0 THEN ratio
                              ELSE MathMin(acc.fieldStats.minRatio, ratio),
                 !.maxRatio = IF acc.numDataPoints = 0 THEN ratio
                              ELSE MathMax(acc.fieldStats.maxRatio, ratio)],
         numDataPoints |-> acc.numDataPoints + 1,
         geometricMean |-> GeometricMeanAdd(acc.geometricMean, ratio),
         leftSum |-> acc.leftSum + leftValue,
         rightSum |-> acc.rightSum + rightValue]

\* statsFinish with the two sums exchanged.
statsFinishSwapped(acc) ==
    IF acc.numDataPoints > 0
    THEN [acc.fieldStats EXCEPT
             !.geometricMean = GeometricMeanGet(acc.geometricMean),
             !.arithmeticMean = getRatio(acc.rightSum, acc.leftSum)]
    ELSE acc.fieldStats

\* Lines 174-178: the statistics pushed for one metric.
statsFinish(acc) ==
    IF acc.numDataPoints > 0
    THEN [acc.fieldStats EXCEPT
             !.geometricMean = GeometricMeanGet(acc.geometricMean),
             !.arithmeticMean = getRatio(acc.leftSum, acc.rightSum)]
    ELSE acc.fieldStats

\* Lines 152-173: the loop over dataPoints[from + 1 ..].
RECURSIVE statsLoop(_, _, _, _, _, _, _)
statsLoop(left, right, points, leftFieldIndex, rightFieldIndex, from, acc) ==
    IF from >= Len(points) THEN acc
    ELSE LET dataPoint == points[from + 1]
             leftValue == left.rows[dataPoint.leftIndex + 1][leftFieldIndex + 1]
             rightValue == right.rows[dataPoint.rightIndex + 1][rightFieldIndex + 1]
         IN  statsLoop(left, right, points, leftFieldIndex, rightFieldIndex,
                       from + 1, statsStep(acc, leftValue, rightValue))

computeStats(left, right, points, ms) ==
    [k \in 1 .. Len(ms) |->
        LET leftFieldIndex == ms[k].fieldIndices[left.index + 1]
            rightFieldIndex == ms[k].fieldIndices[right.index + 1]
        IN  statsFinish(statsLoop(left, right, points,
                                  leftFieldIndex, rightFieldIndex, 0, statsStart))]

\* The rows computeStats reads: two numeric columns per batch.  Column 0 of
\* either batch holds every value of 0 .. MaxValue; row 0 holds 10 (batch 0)
\* and 20 (batch 1) in column 1.
StatsRows(index) ==
    [i \in 1 .. MaxValue + 1 |->
        IF index = 0
        THEN <<i - 1, IF i = 1 THEN 10 ELSE MaxValue + 3 - 2 * i>>
        ELSE <<MaxValue + 1 - i, IF i = 1 THEN 20 ELSE 2 * (i - 1)>>]

StatsBatches ==
    [b \in 1 .. 2 |->
        Batch(b - 1, <<Field("ENCODED_SIZE", TRUE), Field("OTHER", TRUE)>>,
              StatsRows(b - 1))]

InitStats ==
    /\ lastOp = "init"
    /\ IdleRatio
    /\ IdleFilter
    /\ IdleUi
    /\ batches = StatsBatches
    /\ plot = <<-1, -1>>
    /\ metrics \in SeqsUpTo(
           {[fieldIndices |-> fi, enabled |-> FALSE] : fi \in [1 .. 2 -> 0 .. 1]},
           MaxStatMetrics)
    /\ \E l, r \in 1 .. 2 :
           /\ l # r
           /\ leftBatch = batches[l]
           /\ rightBatch = batches[r]
    /\ dataPoints \in SeqsUpTo(
           [leftIndex : 0 .. MaxValue, rightIndex : 0 .. MaxValue], MaxMatches)
    /\ stats = <<>>

ComputeStats ==
    /\ lastOp = "init"
    /\ lastOp' = "computeStats"
    /\ stats' = computeStats(leftBatch, rightBatch, dataPoints, metrics)
    /\ UNCHANGED <<leftBatch, rightBatch, dataPoints, notStats>>

NextStats == ComputeStats

SpecStats == InitStats /\ [][NextStats]_vars

\* The values and the ratio computeStats is to read for metric k (1-based
\* position in metrics) at match p (1-based position in dataPoints).
LeftValue(k, p) ==
    leftBatch.rows[dataPoints[p].leftIndex + 1]
                  [metrics[k].fieldIndices[leftBatch.index + 1] + 1]
RightValue(k, p) ==
    rightBatch.rows[dataPoints[p].rightIndex + 1]
                   [metrics[k].fieldIndices[rightBatch.index + 1] + 1]
RatioAt(k, p) == getRatio(LeftValue(k, p), RightValue(k, p))
Matches == 1 .. Len(dataPoints)
LeftTotal(k) == SumUpTo([p \in Matches |-> LeftValue(k, p)], Len(dataPoints))
RightTotal(k) == SumUpTo([p \in Matches |-> RightValue(k, p)], Len(dataPoints))
Half == Num(1, 2)

\* C3: for a non-empty match list, minRatio is the least and maxRatio the
\* greatest ratio over all matches, read at the metric's column of each
\* batch, and arithmeticMean is the ratio of the two totals; one match of
\* 10 against 20 gives 0.5 for all four statistics.
StatsOverAllMatches ==
    (lastOp = "computeStats" /\ dataPoints # <<>>) =>
        /\ Len(stats) = Len(metrics)
        /\ \A k \in 1 .. Len(metrics) :
               /\ \E p \in Matches : stats[k].minRatio = RatioAt(k, p)
               /\ \A p \in Matches : Leq(stats[k].minRatio, RatioAt(k, p))
               /\ \E p \in Matches : stats[k].maxRatio = RatioAt(k, p)
               /\ \A p \in Matches : Leq(RatioAt(k, p), stats[k].maxRatio)
               /\ stats[k].arithmeticMean = getRatio(LeftTotal(k), RightTotal(k))
               /\ (Len(dataPoints) = 1 /\ LeftValue(k, 1) = 10 /\ RightValue(k, 1) = 20)
                      => stats[k] = [geometricMean |-> Half, minRatio |-> Half,
                                     maxRatio |-> Half, arithmeticMean |-> Half]

StatsOverAllMatchesWitness ==
    /\ lastOp = "computeStats"
    /\ Len(dataPoints) = 1
    /\ Len(metrics) = 1
    /\ LeftValue(1, 1) = 10
    /\ RightValue(1, 1) = 20
    /\ stats[1].geometricMean = Half
    /\ stats[1].arithmeticMean = Half

\* C4: computeStats returns one FieldMetricStats per metric; for an empty
\* match list each has geometricMean = minRatio = maxRatio = arithmeticMean = 1.
StatsOfNoMatch ==
    lastOp = "computeStats" =>
        /\ Len(stats) = Len(metrics)
        /\ dataPoints = <<>> =>
               \A k \in 1 .. Len(stats) :
                   /\ stats[k].geometricMean = Whole(1)
                   /\ stats[k].minRatio = Whole(1)
                   /\ stats[k].maxRatio = Whole(1)
                   /\ stats[k].arithmeticMean = Whole(1)

StatsOfNoMatchWitness ==
    /\ lastOp = "computeStats"
    /\ dataPoints = <<>>
    /\ Len(metrics) = 2
    /\ Len(stats) = 2
    /\ stats[2].minRatio = Whole(1)

------------------------------------------------------------------------------
(* filter.ts: FieldFilter, getFilteredRowIndices *)

FieldFilter(rangeStart, rangeEnd, uniqueValues) ==
    [rangeStart |-> rangeStart, rangeEnd |-> rangeEnd, uniqueValues |-> uniqueValues]

\* The filter of field f (1-based) accepts the row.
filterAccepts(batch, fieldFilters, row, f) ==
    IF batch.fields[f].isNumber
    THEN fieldFilters[f].rangeStart <= row[f] /\ row[f] <= fieldFilters[f].rangeEnd
    ELSE row[f] \in fieldFilters[f].uniqueValues

\* The 0-based indices, in increasing order, of the rows every filter accepts.
RECURSIVE filteredFrom(_, _, _)
filteredFrom(batch, fieldFilters, rowIndex) ==
    IF rowIndex >= Len(batch.rows) THEN <<>>
    ELSE (IF \A f \in 1 .. Len(batch.fields) :
                 filterAccepts(batch, fieldFilters, batch.rows[rowIndex + 1], f)
          THEN <<rowIndex>> ELSE <<>>)
         \o filteredFrom(batch, fieldFilters, rowIndex + 1)

getFilteredRowIndices(batch, fieldFilters) == filteredFrom(batch, fieldFilters, 0)

------------------------------------------------------------------------------
(* batch_selection.ts: BatchSelection *)

\* Lines 41-55: the selection as constructed, one filter per field.
BatchSelection(selectedBatch) ==
    [batch |-> selectedBatch,
     fieldFilters |->
         [f \in 1 .. Len(selectedBatch.fields) |->
             LET field == selectedBatch.fields[f]
             IN  FieldFilter(field.rangeStart, field.rangeEnd,
                             IF field.isNumber THEN {}
                             ELSE {field.uniqueValuesArray[v] :
                                       v \in 1 .. Len(field.uniqueValuesArray)})],
     filteredRowIndices |-> <<>>]

updateFilteredRows(sel) ==
    [sel EXCEPT !.filteredRowIndices = getFilteredRowIndices(sel.batch, sel.fieldFilters)]

\* What a listener of FILTERED_DATA_CHANGED reads when it is called.
FilteredDataChanged(sels, batchIndex) ==
    [type |-> "FILTERED_DATA_CHANGED", batchIndex |-> batchIndex,
     seen |-> [k \in 1 .. Len(sels) |-> sels[k].filteredRowIndices]]

\* The listener that dispatches before it updates.
onFilterChangedDispatchFirst(sels, k, batchIndex) ==
    IF batchIndex # sels[k].batch.index
    THEN [sels |-> sels, events |-> <<>>]
    ELSE [sels |-> [sels EXCEPT ![k] = updateFilteredRows(sels[k])],
          events |-> <<FilteredDataChanged(sels, batchIndex)>>]

\* Lines 59-65: the FILTER_CHANGED listener of selection k (1-based).
onFilterChanged(sels, k, batchIndex) ==
    IF batchIndex # sels[k].batch.index
    THEN [sels |-> sels, events |-> <<>>]
    ELSE LET updated == [sels EXCEPT ![k] = updateFilteredRows(sels[k])]
         IN  [sels |-> updated,
              events |-> <<FilteredDataChanged(updated, batchIndex)>>]

\* events.ts: dispatch(FILTER_CHANGED) calls the listeners of selections
\* k, k + 1, ... one after the other, in the order they were registered.
RECURSIVE dispatchFilterChanged(_, _, _)
dispatchFilterChanged(sels, k, batchIndex) ==
    IF k > Len(sels) THEN [sels |-> sels, events |-> <<>>]
    ELSE LET one == onFilterChanged(sels, k, batchIndex)
             rest == dispatchFilterChanged(one.sels, k + 1, batchIndex)
         IN  [sels |-> rest.sels, events |-> one.events \o rest.events]

\* The two batches of the filter model: batch 0 has a numeric and a
\* categorical field, batch 1 a numeric field only.
SizeField ==
    [id |-> "ENCODED_SIZE", isNumber |-> TRUE, rangeStart |-> 1, rangeEnd |-> 3,
     uniqueValuesArray |-> <<>>]
CodecField ==
    [id |-> "OTHER", isNumber |-> FALSE, rangeStart |-> 0, rangeEnd |-> 0,
     uniqueValuesArray |-> <<"a", "b">>]
FilterBatches ==
    <<Batch(0, <<SizeField, CodecField>>, <<<<1, "a">>, <<2, "b">>, <<3, "a">>>>),
      Batch(1, <<SizeField>>, <<<<3>>, <<1>>, <<2>>>>)>>

InitFilter ==
    /\ lastOp = "init"
    /\ IdleRatio
    /\ IdleStats
    /\ IdleUi
    /\ batches = FilterBatches
    /\ metrics = <<>>
    /\ plot = <<-1, -1>>
    /\ batchSelections = [k \in 1 .. Len(FilterBatches) |-> BatchSelection(FilterBatches[k])]
    /\ eventBatchIndex = -1
    /\ observed = <<>>

\* The user moves the ends of a range filter.
SetRange ==
    /\ \E k \in 1 .. Len(batchSelections), lo, hi \in 1 .. MaxRange :
           batchSelections' =
               [batchSelections EXCEPT ![k].fieldFilters[1].rangeStart = lo,
                                       ![k].fieldFilters[1].rangeEnd = hi]
    /\ lastOp' = "setRange"
    /\ UNCHANGED <<eventBatchIndex, observed, notFilter>>

\* The user ticks or unticks one value of a categorical filter.
ToggleValue ==
    /\ \E k \in 1 .. Len(batchSelections), v \in {"a", "b"} :
           /\ Len(batchSelections[k].fieldFilters) >= 2
           /\ batchSelections' =
               [batchSelections EXCEPT ![k].fieldFilters[2].uniqueValues =
                   IF v \in @ THEN @ \ {v} ELSE @ \cup {v}]
    /\ lastOp' = "toggleValue"
    /\ UNCHANGED <<eventBatchIndex, observed, notFilter>>

\* FILTER_CHANGED is dispatched, for a batch index with or without a selection.
FilterChanged ==
    /\ \E batchIndex \in 0 .. Len(batchSelections) :
           LET done == dispatchFilterChanged(batchSelections, 1, batchIndex)
           IN  /\ batchSelections' = done.sels
               /\ observed' = done.events
               /\ eventBatchIndex' = batchIndex
    /\ lastOp' = "FILTER_CHANGED"
    /\ UNCHANGED notFilter

NextFilter == SetRange \/ ToggleValue \/ FilterChanged

SpecFilter == InitFilter /\ [][NextFilter]_vars

\* The rows of the selection that pass every one of its filters.
PassingRows(sel) ==
    {i \in 0 .. Len(sel.batch.rows) - 1 :
        LET row == sel.batch.rows[i + 1]
            flt == sel.fieldFilters
        IN  /\ flt[1].rangeStart <= row[1] /\ row[1] <= flt[1].rangeEnd
            /\ Len(row) >= 2 => row[2] \in flt[2].uniqueValues}

IsListOf(indices, S) ==
    /\ {indices[j] : j \in 1 .. Len(indices)} = S
    /\ \A j \in 1 .. Len(indices) - 1 : indices[j] < indices[j + 1]

\* C6: on FILTER_CHANGED, the selection of the event's batchIndex holds the
\* recomputed filteredRowIndices, and the FILTERED_DATA_CHANGED it dispatches
\* carries that batchIndex and is handed that recomputed set; any other
\* selection keeps its filteredRowIndices and dispatches nothing.
FilterChangedThenNotified ==
    [][lastOp' = "FILTER_CHANGED" =>
          /\ \A k \in 1 .. Len(batchSelections) :
                 IF batchSelections[k].batch.index = eventBatchIndex'
                 THEN /\ IsListOf(batchSelections'[k].filteredRowIndices,
                                  PassingRows(batchSelections[k]))
                      /\ \E e \in 1 .. Len(observed') :
                             /\ observed'[e].type = "FILTERED_DATA_CHANGED"
                             /\ observed'[e].batchIndex = eventBatchIndex'
                             /\ IsListOf(observed'[e].seen[k],
                                         PassingRows(batchSelections[k]))
                 ELSE batchSelections'[k].filteredRowIndices
                          = batchSelections[k].filteredRowIndices
          /\ Len(observed') =
                 Cardinality({k \in 1 .. Len(batchSelections) :
                                 batchSelections[k].batch.index = eventBatchIndex'})
          /\ \A k \in 1 .. Len(batchSelections) :
                 batchSelections'[k].fieldFilters = batchSelections[k].fieldFilters
      ]_vars

\* A narrowed filter took effect: two rows of batch 1 are left and were
\* notified, while the selection of batch 0 was never recomputed.
FilterChangedThenNotifiedWitness ==
    /\ lastOp = "FILTER_CHANGED"
    /\ eventBatchIndex = 1
    /\ batchSelections[2].filteredRowIndices = <<0, 2>>
    /\ Len(observed) = 1
    /\ observed[1].batchIndex = 1
    /\ observed[1].seen[2] = <<0, 2>>
    /\ batchSelections[1].filteredRowIndices = <<>>

------------------------------------------------------------------------------
(* matches_ui.ts: MatchesUi *)

\* state.batchSelections[batchIndex]: the position itself, -1 (undefined)
\* where the array has no entry.
selectionAt(sels, batchIndex) ==
    IF batchIndex >= 0 /\ batchIndex < Len(sels) THEN batchIndex ELSE -1

\* The fields of MatchesUi the listeners write.
Panel(selection, shown, requested) ==
    [batchSelection |-> selection, display |-> shown, updateRequested |-> requested]

\* The MATCHES_INFO_REQUEST listener without the test of line 42.
onMatchesInfoRequestAny(panel, sels, reference, batchIndex) ==
    Panel(selectionAt(sels, batchIndex), "block", TRUE)

\* Lines 41-50.
onMatchesInfoRequest(panel, sels, reference, batchIndex) ==
    IF batchIndex = reference THEN panel
    ELSE Panel(selectionAt(sels, batchIndex), "block", TRUE)

\* Lines 51-57.
onMatchInfoRequest(panel) ==
    IF panel.batchSelection = -1 THEN panel ELSE Panel(-1, "none", TRUE)

\* Lines 65-69.
onClose(panel) == Panel(-1, "none", TRUE)

\* Lines 60-63, 109-143: the template, named by the two selections it shows.
render(selection, reference) ==
    IF selection = -1 THEN EmptyHtml
    ELSE [reference |-> reference, batch |-> selection]

ThePanel == Panel(batchSelection, display, updateRequested)

SetPanel(panel) ==
    /\ batchSelection' = panel.batchSelection
    /\ display' = panel.display
    /\ updateRequested' = panel.updateRequested

InitUi ==
    /\ lastOp = "init"
    /\ IdleRatio
    /\ IdleCatalog
    /\ IdleStats
    /\ \E n \in 1 .. MaxSelections :
           /\ batchSelections = [k \in 1 .. n |-> BatchSelection(Batch(k - 1, <<>>, <<>>))]
           /\ referenceBatchSelectionIndex \in 0 .. n - 1
    /\ eventBatchIndex = -1
    /\ observed = <<>>
    /\ batchSelection = -1
    /\ display = "none"
    /\ updateRequested = FALSE
    /\ rendered = EmptyHtml
    /\ dispatched = NoEvent

\* MATCHES_INFO_REQUEST is dispatched, for a batch index with or without an
\* entry in state.batchSelections.
MatchesInfoRequest ==
    /\ \E batchIndex \in 0 .. Len(batchSelections) :
           /\ SetPanel(onMatchesInfoRequest(ThePanel, batchSelections,
                                            referenceBatchSelectionIndex, batchIndex))
           /\ eventBatchIndex' = batchIndex
    /\ lastOp' = "MATCHES_INFO_REQUEST"
    /\ UNCHANGED <<rendered, dispatched, notUi>>

MatchInfoRequest ==
    /\ SetPanel(onMatchInfoRequest(ThePanel))
    /\ lastOp' = "MATCH_INFO_REQUEST"
    /\ UNCHANGED <<eventBatchIndex, rendered, dispatched, notUi>>

\* Lit calls render() after requestUpdate().
Render ==
    /\ updateRequested
    /\ rendered' = render(batchSelection, referenceBatchSelectionIndex)
    /\ updateRequested' = FALSE
    /\ lastOp' = "render"
    /\ UNCHANGED <<eventBatchIndex, batchSelection, display, dispatched, notUi>>

\* The buttons exist once rendered and can be clicked while displayed.
Clickable == rendered # EmptyHtml /\ display = "block"

\* A click on #background or #closeButton.
Close ==
    /\ Clickable
    /\ SetPanel(onClose(ThePanel))
    /\ lastOp' = "close"
    /\ UNCHANGED <<eventBatchIndex, rendered, dispatched, notUi>>

\* A click on "Show metadata" of either rendered batch.
BatchInfoRequest ==
    /\ Clickable
    /\ \E shown \in {rendered.reference, rendered.batch} :
           dispatched' = [type |-> "BATCH_INFO_REQUEST",
                          batchIndex |-> batchSelections[shown + 1].batch.index]
    /\ SetPanel(onClose(ThePanel))
    /\ lastOp' = "click"
    /\ UNCHANGED <<eventBatchIndex, rendered, notUi>>

\* A click on "Filter rows" or "Show rows" of either rendered batch.
FilteredDataInfoRequest ==
    /\ Clickable
    /\ \E shown \in {rendered.reference, rendered.batch} :
           dispatched' = [type |-> "FILTERED_DATA_INFO_REQUEST",
                          batchIndex |-> batchSelections[shown + 1].batch.index]
    /\ SetPanel(onClose(ThePanel))
    /\ lastOp' = "click"
    /\ UNCHANGED <<eventBatchIndex, rendered, notUi>>

NextUi ==
    \/ MatchesInfoRequest
    \/ MatchInfoRequest
    \/ Render
    \/ Close
    \/ BatchInfoRequest
    \/ FilteredDataInfoRequest

SpecUi == InitUi /\ [][NextUi]_vars

\* C7: a MATCHES_INFO_REQUEST for the reference batch leaves the panel's
\* batchSelection and display as they were, and the panel does not show the
\* reference batch.
ReferenceRequestIgnored ==
    [][(/\ lastOp' = "MATCHES_INFO_REQUEST"
        /\ eventBatchIndex' = referenceBatchSelectionIndex)
           => /\ batchSelection' = batchSelection
              /\ display' = display
              /\ batchSelection' # referenceBatchSelectionIndex
      ]_vars

\* The request arrived while the panel showed another batch, and it still does.
ReferenceRequestIgnoredWitness ==
    /\ lastOp = "MATCHES_INFO_REQUEST"
    /\ eventBatchIndex = referenceBatchSelectionIndex
    /\ display = "block"
    /\ batchSelection # -1
    /\ batchSelection # referenceBatchSelectionIndex

\* C9: the panel is displayed exactly when its batchSelection is defined.
ShownIffSelected == (display = "block") <=> (batchSelection # -1)

====
